---- MODULE Spec2Model ----
(***************************************************************************)
(* Model of Backend/Retrieval.py: a FastAPI application with three routes  *)
(* (POST /chat, GET /reset_memory, GET /) sharing one process-wide         *)
(* ConversationBufferMemory.                                               *)
(*                                                                         *)
(* Text is a sequence of one-character strings.  The handlers are          *)
(* `async def` coroutines that contain no `await`: once the event loop has *)
(* dispatched one, it runs to its return (or raise) before the loop can    *)
(* dispatch anything else.  The blocking provider call of line 72 is split *)
(* in two steps (the call, and its return or raise) so that the states in  *)
(* which a request waits on a provider are visible.                        *)
(***************************************************************************)
EXTENDS Integers, Sequences, FiniteSets, TLC

\* ---------------------------------------------------------------- bounds
MaxInFlight == 2    \* connections that can hold a request at the same time
MaxPairs    == 2    \* chat is not dispatched once memory holds this many pairs
MaxQueryLen == 1    \* length of a request's query
MaxPathLen  == 2    \* length of a chunk's metadata 'source' string
MaxDocs     == 2    \* chunks the retriever returns for one query

\* ------------------------------------------------------------------ text
Whitespace == {" "}
QueryChars == {" ", "a"}
PathChars  == {"/", "a"}
Answers    == {<<"x">>, <<"y">>}

RECURSIVE StringsUpTo(_, _)
StringsUpTo(chars, n) ==
    IF n = 0 THEN {<<>>}
    ELSE LET shorter == StringsUpTo(chars, n - 1)
         IN  shorter \cup {Append(s, c) : s \in {t \in shorter : Len(t) = n - 1}, c \in chars}

RECURSIVE ListsUpTo(_, _)
ListsUpTo(elems, n) ==
    IF n = 0 THEN {<<>>}
    ELSE LET shorter == ListsUpTo(elems, n - 1)
         IN  shorter \cup {Append(s, e) : s \in {t \in shorter : Len(t) = n - 1}, e \in elems}

\* str.strip() with no argument: drop the whitespace run at each end.
RECURSIVE lstrip(_)
lstrip(s) ==
    IF s = <<>> THEN s
    ELSE IF Head(s) \in Whitespace THEN lstrip(Tail(s)) ELSE s

RECURSIVE rstrip(_)
rstrip(s) ==
    IF s = <<>> THEN s
    ELSE IF s[Len(s)] \in Whitespace THEN rstrip(SubSeq(s, 1, Len(s) - 1)) ELSE s

strip_whole(s) == s

strip(s) == rstrip(lstrip(s))

\* posixpath.basename: i = p.rfind('/') + 1; return p[i:]
rfind(p, c) ==
    LET hits == {k \in 1..Len(p) : p[k] = c}
    IN  IF hits = {} THEN 0 ELSE CHOOSE k \in hits : \A j \in hits : j <= k

basename_whole(p) == p

basename(p) == SubSeq(p, rfind(p, "/") + 1, Len(p))

\* ------------------------------------------------- retrieved chunks
\* The metadata of a chunk, as far as the handler reads it: the 'source'
\* key is absent, holds a string, or holds a value that is not a string
\* (None, a number).
NoSource     == [tag |-> "absent", val |-> <<>>]
NonStrSource == [tag |-> "other",  val |-> <<>>]
StrSource(p) == [tag |-> "str",    val |-> p]

Paths     == StringsUpTo(PathChars, MaxPathLen)
Metadata  == {NoSource, NonStrSource} \cup {StrSource(p) : p \in Paths}
AllDocs   == ListsUpTo(Metadata, MaxDocs)
MainDocs  == {<<>>, <<NoSource>>, <<NonStrSource>>, <<StrSource(<<"a", "/", "a">>)>>}
Queries   == StringsUpTo(QueryChars, MaxQueryLen)
OneQuery  == {<<"a">>}

\* doc.metadata.get("source", "")
metadata_get(doc) == IF doc.tag = "absent" THEN StrSource(<<>>) ELSE doc

\* The loop of lines 74-78.  os.path.basename raises TypeError on a value
\* that is not a path string; the loop then stops and the handler raises.
RECURSIVE build_sources(_)
build_sources(docs) ==
    IF docs = <<>> THEN [ok |-> TRUE, sources |-> <<>>]
    ELSE LET file_path == metadata_get(Head(docs))
         IN  IF file_path.tag # "str" THEN [ok |-> FALSE, sources |-> <<>>]
             ELSE LET rest == build_sources(Tail(docs))
                  IN  [ok |-> rest.ok,
                       sources |-> IF rest.ok THEN <<basename(file_path.val)>> \o rest.sources
                                   ELSE <<>>]

\* ------------------------------------------------- conversation memory
HumanMessage(c) == [type |-> "human", content |-> c]
AIMessage(c)    == [type |-> "ai",    content |-> c]

\* The comprehension of lines 83-86.
render_history(msgs) ==
    [i \in 1..Len(msgs) |->
        IF msgs[i].type = "human" THEN <<"user", msgs[i].content>>
        ELSE <<"bot", msgs[i].content>>]

\* ----------------------------------------------------------- state
VARIABLES
    MONGODB_URI,  \* "unset" or "set": the environment at process start
    proc,         \* "loading" (module body running), "serving", "failed"
    memory,       \* memory.chat_memory.messages
    conn,         \* per connection: the request it carries and its handler's position
    loop,         \* 0, or the connection whose handler the event loop is running
    out,          \* the response of the handler that returned last
    afterReset,   \* history: /reset_memory ran and no /chat has completed since
    run           \* history: the calls of an unbroken run of successful chats

vars == <<MONGODB_URI, proc, memory, conn, loop, out, afterReset, run>>

Conns == 1..MaxInFlight

FreeConn    == [pc |-> "free",    request |-> <<>>, query |-> <<>>, before |-> <<>>, invokes |-> 0]
PendingConn == [pc |-> "pending", request |-> <<>>, query |-> <<>>, before |-> <<>>, invokes |-> 0]

NoRun == [ok |-> FALSE, calls |-> <<>>]

NoResponse ==
    [kind |-> "none", status |-> 0, message |-> "", answer |-> <<>>, sources |-> <<>>,
     chat_history |-> <<>>, request |-> <<>>, docs |-> <<>>, before |-> <<>>,
     after |-> <<>>, invokes |-> 0, raised |-> "", fresh |-> FALSE, twice |-> FALSE,
     run |-> NoRun]

Init ==
    /\ MONGODB_URI \in {"unset", "set"}
    /\ proc = "loading"
    /\ memory = <<>>
    /\ conn = [c \in Conns |-> FreeConn]
    /\ loop = 0
    /\ out = NoResponse
    /\ afterReset = FALSE
    /\ run = [ok |-> TRUE, calls |-> <<>>]

\* ------------------------------------------------------- process start
\* Lines 14-62, the module body.  os.getenv returns None for an unset
\* variable and line 31 passes it on unchecked; MongoClient(None) falls
\* back to its default host and connects lazily, so the module body
\* completes whether or not MONGODB_URI is set.
load_module ==
    /\ proc = "loading"
    /\ proc' = "serving"
    /\ UNCHANGED <<MONGODB_URI, memory, conn, loop, out, afterReset, run>>

\* Lines 36-46: loading the embedding model or constructing the LLM client
\* raises (no model files, no API key); the import fails, nothing is served.
load_module_raises ==
    /\ proc = "loading"
    /\ proc' = "failed"
    /\ UNCHANGED <<MONGODB_URI, memory, conn, loop, out, afterReset, run>>

\* ------------------------------------------------------- HTTP surface
\* A request arrives on a free connection and waits for the event loop.
receive(c) ==
    /\ proc = "serving"
    /\ conn[c].pc = "free"
    /\ conn' = [conn EXCEPT ![c] = PendingConn]
    /\ UNCHANGED <<MONGODB_URI, proc, memory, loop, out, afterReset, run>>

\* ConversationBufferMemory.save_context, run by Chain.invoke after the
\* chain's call has returned: the question, then the answer.
save_context_user_only(msgs, question, answer) == msgs \o <<HumanMessage(question)>>

save_context_answer_first(msgs, question, answer) ==
    msgs \o <<AIMessage(answer), HumanMessage(question)>>

save_context(msgs, question, answer) == msgs \o <<HumanMessage(question), AIMessage(answer)>>

\* Lines 70-72 up to the provider call: the event loop dispatches the
\* coroutine, which strips the query and calls qa_chain.invoke.  The call is
\* synchronous: the coroutine keeps the event loop while it waits.
chat_call_await(c, q) ==
    /\ proc = "serving"
    /\ conn[c].pc = "pending"
    /\ loop = 0
    /\ Len(memory) < 2 * MaxPairs
    /\ conn' = [conn EXCEPT ![c] = [pc |-> "invoking", request |-> q, query |-> strip(q),
                                    before |-> memory, invokes |-> 1]]
    /\ loop' = 0
    /\ UNCHANGED <<MONGODB_URI, proc, memory, out, afterReset, run>>

chat_call(c, q) ==
    /\ proc = "serving"
    /\ conn[c].pc = "pending"
    /\ loop = 0
    /\ Len(memory) < 2 * MaxPairs
    /\ conn' = [conn EXCEPT ![c] = [pc |-> "invoking", request |-> q, query |-> strip(q),
                                    before |-> memory, invokes |-> 1]]
    /\ loop' = c
    /\ UNCHANGED <<MONGODB_URI, proc, memory, out, afterReset, run>>

ChatResponse(c, status, raised, answer, sources, msgs, docs, newrun) ==
    [kind |-> "chat", status |-> status, message |-> "", answer |-> answer,
     sources |-> sources,
     chat_history |-> IF status = 200 THEN render_history(msgs) ELSE <<>>,
     request |-> conn[c].request, docs |-> docs, before |-> conn[c].before,
     after |-> msgs, invokes |-> conn[c].invokes, raised |-> raised, fresh |-> afterReset,
     twice |-> FALSE, run |-> newrun]

chat_raise_user_saved(c) ==
    /\ conn[c].pc = "invoking"
    /\ memory' = memory \o <<HumanMessage(conn[c].query)>>
    /\ out' = ChatResponse(c, 500, "provider", <<>>, <<>>, memory', <<>>, NoRun)
    /\ conn' = [conn EXCEPT ![c] = FreeConn]
    /\ loop' = 0
    /\ afterReset' = FALSE
    /\ run' = NoRun
    /\ UNCHANGED <<MONGODB_URI, proc>>

\* Line 72, the provider call raises (embedding, vector search or LLM): the
\* exception leaves invoke before save_context and leaves the handler; the
\* framework answers 500.
chat_raise(c) ==
    /\ conn[c].pc = "invoking"
    /\ out' = ChatResponse(c, 500, "provider", <<>>, <<>>, memory, <<>>, NoRun)
    /\ conn' = [conn EXCEPT ![c] = FreeConn]
    /\ loop' = 0
    /\ afterReset' = FALSE
    /\ run' = NoRun
    /\ UNCHANGED <<MONGODB_URI, proc, memory>>

\* Lines 72-87, the provider call returns: invoke saves the pair to memory,
\* then the handler builds the sources and the history it returns.  A raise
\* in the sources loop comes after the save.
chat_return(c, answer, docs) ==
    /\ conn[c].pc = "invoking"
    /\ LET msgs   == save_context(memory, conn[c].query, answer)
           built  == build_sources(docs)
           newrun == IF built.ok /\ run.ok
                     THEN [ok |-> TRUE,
                           calls |-> Append(run.calls,
                                            [query |-> conn[c].request, answer |-> answer])]
                     ELSE NoRun
       IN  /\ memory' = msgs
           /\ out' = IF built.ok
                     THEN ChatResponse(c, 200, "", answer, built.sources, msgs, docs, newrun)
                     ELSE ChatResponse(c, 500, "sources", <<>>, <<>>, msgs, docs, newrun)
           /\ run' = newrun
    /\ conn' = [conn EXCEPT ![c] = FreeConn]
    /\ loop' = 0
    /\ afterReset' = FALSE
    /\ UNCHANGED <<MONGODB_URI, proc>>

\* Lines 89-92.
reset_memory_keep(c) ==
    /\ proc = "serving"
    /\ conn[c].pc = "pending"
    /\ loop = 0
    /\ memory' = memory
    /\ out' = [NoResponse EXCEPT !.kind = "reset", !.status = 200,
                                 !.message = "Memory cleared!",
                                 !.before = memory, !.after = memory,
                                 !.twice = (out.kind = "reset")]
    /\ conn' = [conn EXCEPT ![c] = FreeConn]
    /\ afterReset' = TRUE
    /\ run' = [ok |-> TRUE, calls |-> <<>>]
    /\ UNCHANGED <<MONGODB_URI, proc, loop>>

reset_memory_drop_last(c) ==
    /\ proc = "serving"
    /\ conn[c].pc = "pending"
    /\ loop = 0
    /\ memory' = IF Len(memory) <= 2 THEN <<>> ELSE SubSeq(memory, 1, Len(memory) - 2)
    /\ out' = [NoResponse EXCEPT !.kind = "reset", !.status = 200,
                                 !.message = "Memory cleared!",
                                 !.before = memory, !.after = memory',
                                 !.twice = (out.kind = "reset")]
    /\ conn' = [conn EXCEPT ![c] = FreeConn]
    /\ afterReset' = TRUE
    /\ run' = [ok |-> TRUE, calls |-> <<>>]
    /\ UNCHANGED <<MONGODB_URI, proc, loop>>

reset_memory(c) ==
    /\ proc = "serving"
    /\ conn[c].pc = "pending"
    /\ loop = 0
    /\ memory' = <<>>
    /\ out' = [NoResponse EXCEPT !.kind = "reset", !.status = 200,
                                 !.message = "Memory cleared!",
                                 !.before = memory, !.after = <<>>,
                                 !.twice = (out.kind = "reset")]
    /\ conn' = [conn EXCEPT ![c] = FreeConn]
    /\ afterReset' = TRUE
    /\ run' = [ok |-> TRUE, calls |-> <<>>]
    /\ UNCHANGED <<MONGODB_URI, proc, loop>>

\* Lines 94-96.
root(c) ==
    /\ proc = "serving"
    /\ conn[c].pc = "pending"
    /\ loop = 0
    /\ out' = [NoResponse EXCEPT !.kind = "root", !.status = 200,
                                 !.message = "RAG Chatbot (MongoDB Atlas) is running!",
                                 !.before = memory, !.after = memory]
    /\ conn' = [conn EXCEPT ![c] = FreeConn]
    /\ UNCHANGED <<MONGODB_URI, proc, memory, loop, afterReset, run>>

Next ==
    \/ load_module
    \/ load_module_raises
    \/ \E c \in Conns : receive(c)
    \/ \E c \in Conns, q \in Queries : chat_call(c, q)
    \/ \E c \in Conns : chat_raise(c)
    \/ \E c \in Conns : conn[c].pc = "invoking" /\ \E a \in Answers, d \in MainDocs : chat_return(c, a, d)
    \/ \E c \in Conns : reset_memory(c)
    \/ \E c \in Conns : root(c)

Spec == Init /\ [][Next]_vars

\* The same program before clients that clear the memory ahead of each
\* question, with the retriever ranging over every chunk list within the
\* bounds, and one query and one answer.
NextSources ==
    \/ load_module
    \/ load_module_raises
    \/ \E c \in Conns : receive(c)
    \/ \E c \in Conns, q \in OneQuery : memory = <<>> /\ chat_call(c, q)
    \/ \E c \in Conns : chat_raise(c)
    \/ \E c \in Conns : conn[c].pc = "invoking" /\ \E d \in AllDocs : chat_return(c, <<"x">>, d)
    \/ \E c \in Conns : reset_memory(c)
    \/ \E c \in Conns : root(c)

SpecSources == Init /\ [][NextSources]_vars

\* ================================================================ claims
IsChat200 == out.kind = "chat" /\ out.status = 200

\* t is q without its leading and trailing whitespace: q is t between two
\* runs of whitespace, and t neither starts nor ends with whitespace.
IsTrimOf(t, q) ==
    /\ \E i \in 0..Len(q) :
          /\ i + Len(t) <= Len(q)
          /\ t = SubSeq(q, i + 1, i + Len(t))
          /\ \A k \in 1..Len(q) : (k <= i \/ k > i + Len(t)) => q[k] \in Whitespace
    /\ t # <<>> => (t[1] \notin Whitespace /\ t[Len(t)] \notin Whitespace)

\* s is the final component of path p: what follows the last "/" of p.
IsFinalComponent(s, p) ==
    /\ Len(s) <= Len(p)
    /\ s = SubSeq(p, Len(p) - Len(s) + 1, Len(p))
    /\ \A k \in 1..Len(s) : s[k] # "/"
    /\ Len(s) < Len(p) => p[Len(p) - Len(s)] = "/"

\* msgs is prev followed by one user turn (the trimmed query) and one
\* assistant turn (the answer).
IsPrevPlusPair(msgs, prev, q, answer) ==
    /\ Len(msgs) = Len(prev) + 2
    /\ SubSeq(msgs, 1, Len(prev)) = prev
    /\ msgs[Len(prev) + 1].type = "human"
    /\ IsTrimOf(msgs[Len(prev) + 1].content, q)
    /\ msgs[Len(prev) + 2] = [type |-> "ai", content |-> answer]

\* C1: a /chat that returns 200 leaves memory equal to what it held when the
\* request was dispatched, followed by exactly two turns: the user turn with
\* the query without leading/trailing whitespace, then the assistant turn
\* with the answer of the response.
C1_SuccessAppendsPair ==
    IsChat200 => IsPrevPlusPair(out.after, out.before, out.request, out.answer)

C1_Witness ==
    /\ IsChat200
    /\ out.before # <<>>
    /\ out.request = <<" ">>

C3_AllOrNothing ==
    out.kind = "chat" =>
        \/ out.status = 200 /\ IsPrevPlusPair(out.after, out.before, out.request, out.answer)
        \/ out.status # 200 /\ out.after = out.before

\* C4: the first /chat to complete after a /reset_memory, when it succeeds,
\* returns a chat_history of exactly its own user turn and assistant turn.
C4_FreshPairAfterReset ==
    (IsChat200 /\ out.fresh) =>
        /\ Len(out.chat_history) = 2
        /\ out.chat_history[1][1] = "user"
        /\ IsTrimOf(out.chat_history[1][2], out.request)
        /\ out.chat_history[2] = <<"bot", out.answer>>

C4_Witness ==
    /\ IsChat200
    /\ out.fresh
    /\ out.chat_history = <<<<"user", <<"a">>>>, <<"bot", <<"y">>>>>>

\* C5 as stated: after N successful calls in a row from empty memory, the
\* Nth chat_history has length 2N, entry 2k-1 is {user: query_k} and entry
\* 2k is {bot: answer_k}.
C5_HistoryListsQueriesVerbatim ==
    (IsChat200 /\ out.run.ok) =>
        /\ Len(out.chat_history) = 2 * Len(out.run.calls)
        /\ \A k \in 1..Len(out.run.calls) :
              /\ 2 * k <= Len(out.chat_history)
              /\ out.chat_history[2 * k - 1] = <<"user", out.run.calls[k].query>>
              /\ out.chat_history[2 * k] = <<"bot", out.run.calls[k].answer>>

\* C5 amended: the same, with entry 2k-1 holding query_k without its leading
\* and trailing whitespace.
C5_HistoryListsTrimmedQueries ==
    (IsChat200 /\ out.run.ok) =>
        /\ Len(out.chat_history) = 2 * Len(out.run.calls)
        /\ \A k \in 1..Len(out.run.calls) :
              /\ 2 * k <= Len(out.chat_history)
              /\ out.chat_history[2 * k - 1][1] = "user"
              /\ IsTrimOf(out.chat_history[2 * k - 1][2], out.run.calls[k].query)
              /\ out.chat_history[2 * k] = <<"bot", out.run.calls[k].answer>>

C5_Witness ==
    /\ IsChat200
    /\ out.run.ok
    /\ Len(out.run.calls) = MaxPairs
    /\ out.run.calls[1] # out.run.calls[2]

\* C6: every /reset_memory, the second of two in a row included, leaves
\* memory empty and returns the payload {"message": "Memory cleared!"}.
C6_ResetClears ==
    out.kind = "reset" =>
        /\ out.after = <<>>
        /\ out.status = 200
        /\ out.message = "Memory cleared!"

C6_Witness ==
    /\ out.kind = "reset"
    /\ out.twice
    /\ memory = <<>>

\* C7: in a 200 response of /chat, sources has one entry per retrieved
\* chunk, in retrieval order, duplicates kept; the entry is the final path
\* component of the chunk's 'source', and empty when the chunk has none.
C7_SourcesPerChunk ==
    IsChat200 =>
        /\ Len(out.sources) = Len(out.docs)
        /\ \A i \in 1..Len(out.docs) :
              /\ i <= Len(out.sources)
              /\ out.docs[i].tag = "absent" => out.sources[i] = <<>>
              /\ out.docs[i].tag = "str" => IsFinalComponent(out.sources[i], out.docs[i].val)

C7_Witness ==
    /\ IsChat200
    /\ out.docs = <<StrSource(<<"/", "a">>), StrSource(<<"/", "a">>)>>
    /\ out.sources = <<<<"a">>, <<"a">>>>

\* C8: with MONGODB_URI unset the process never serves requests.
C8_UnsetUriNeverServes ==
    MONGODB_URI = "unset" => proc # "serving"

\* C9: memory is always a sequence of complete pairs (even length, a user
\* turn at every odd position followed by an assistant turn), and every
\* step that changes it either clears it or appends the user turn and the
\* assistant turn of the one request that returns in that step.
WellPaired(msgs) ==
    /\ Len(msgs) % 2 = 0
    /\ \A i \in 1..Len(msgs) : msgs[i].type = (IF i % 2 = 1 THEN "human" ELSE "ai")

AppendsOwnPair(c) ==
    /\ conn[c].pc = "invoking"
    /\ conn'[c].pc = "free"
    /\ \E a \in Answers : memory' = memory \o <<HumanMessage(conn[c].query), AIMessage(a)>>

C9_OnlyCompletePairs ==
    /\ []WellPaired(memory)
    /\ [][\/ memory' = memory
          \/ memory' = <<>>
          \/ \E c \in Conns : AppendsOwnPair(c)]_vars

C9_Witness ==
    /\ Len(memory) = 2 * MaxPairs
    /\ out.kind = "chat"
    /\ \E c \in Conns : conn[c].pc = "pending"

\* C10 as stated: while a /chat waits on a provider call its handler is
\* suspended, and the scheduler can run another pending request.
C10_WaitingChatYields ==
    \A c \in Conns, d \in Conns :
        (conn[c].pc = "invoking" /\ conn[d].pc = "pending") => ENABLED root(d)

\* C10 amended: while a /chat waits on a provider call it keeps the event
\* loop: no other request is in a handler, every other request that has been
\* received stays pending, and memory changes only by this request's return.
C10_WaitingChatKeepsLoop ==
    [][\A c \in Conns :
          conn[c].pc = "invoking" =>
              /\ \A d \in Conns \ {c} :
                    /\ conn[d].pc # "invoking"
                    /\ conn'[d].pc \in {conn[d].pc, "pending"}
              /\ memory' = memory \/ conn'[c].pc = "free"]_vars

C10_Witness ==
    \E c \in Conns, d \in Conns :
        /\ conn[c].pc = "invoking"
        /\ conn[d].pc = "pending"
        /\ memory # <<>>

====
